---- MODULE Spec2Model ----
(***************************************************************************)
(* Model of the G-code parse logic of src/src/main.rs: the line loop of    *)
(* main (lines 246-278) and extract_command (lines 206-244).               *)
(*                                                                         *)
(* Text is a sequence of one-character strings, so that splitting on       *)
(* newlines, splitting on whitespace and str::parse::<f32> are computed    *)
(* character by character.  An f32 is represented by the exact decimal it  *)
(* was parsed from, [m |-> mantissa, e |-> number of fractional digits],   *)
(* normalised; for literals of fewer than seven significant digits two     *)
(* literals give the same f32 exactly when they give the same decimal.     *)
(* A Rust panic (index out of bounds, unwrap of Err) is the result         *)
(* Panic(...): it unwinds main and ends the process.                       *)
(***************************************************************************)
EXTENDS Integers, Sequences, FiniteSets, TLC

VARIABLES
    file_string,     \* main.rs:162  the document text
    commands,        \* main.rs:246  the lines of the document
    cmd_idx,         \* main.rs:248  1-based position of the for loop in commands
    terms,           \* main.rs:249  tokens of the line being processed
    command_string,  \* main.rs:206  first parameter of the last extract_command call
    arguments,       \* main.rs:206  second parameter of the last extract_command call
    parsed,          \* main.rs:268  value returned by the last extract_command call
    output,          \* main.rs:270-277  the Parsed:/Error: lines printed so far
    pc               \* control position

vars == <<file_string, commands, cmd_idx, terms, command_string, arguments, parsed, output, pc>>

----------------------------------------------------------------------------
(* Bounds *)

MaxArgs == 6

MaxLines == 3

----------------------------------------------------------------------------
(* Result values *)

Ok(c) == [tag |-> "Ok", val |-> c]

Err(e) == [tag |-> "Err", err |-> e]

Panic(why, at) == [tag |-> "Panic", why |-> why, at |-> at]

None == [tag |-> "None"]

----------------------------------------------------------------------------
(* str::parse::<f32>, as called at main.rs:211-236 *)

DigitChars == <<"0", "1", "2", "3", "4", "5", "6", "7", "8", "9">>

IsDigit(c) == \E i \in 1..10 : DigitChars[i] = c

DigitVal(c) == (CHOOSE i \in 1..10 : DigitChars[i] = c) - 1

LowerChars == <<"a", "b", "c", "d", "e", "f", "g", "h", "i", "j", "k", "l", "m",
                "n", "o", "p", "q", "r", "s", "t", "u", "v", "w", "x", "y", "z">>

UpperChars == <<"A", "B", "C", "D", "E", "F", "G", "H", "I", "J", "K", "L", "M",
                "N", "O", "P", "Q", "R", "S", "T", "U", "V", "W", "X", "Y", "Z">>

ToLower(c) ==
    IF \E i \in 1..26 : UpperChars[i] = c
    THEN LowerChars[CHOOSE i \in 1..26 : UpperChars[i] = c]
    ELSE c

LowerText(s) == [i \in 1..Len(s) |-> ToLower(s[i])]

AllDigits(s) == \A i \in 1..Len(s) : IsDigit(s[i])

RECURSIVE DigitsToInt(_)
DigitsToInt(s) ==
    IF s = <<>> THEN 0
    ELSE 10 * DigitsToInt(SubSeq(s, 1, Len(s) - 1)) + DigitVal(s[Len(s)])

RECURSIVE Normalise(_, _)
Normalise(m, e) ==
    IF e > 0 /\ m % 10 = 0 THEN Normalise(m \div 10, e - 1) ELSE [m |-> m, e |-> e]

DotPositions(s) == {i \in 1..Len(s) : s[i] = "."}

\* the unsigned decimal part: Digit+ | Digit+ '.' Digit* | Digit* '.' Digit+
ParseDecimal(s, neg) ==
    LET dots == DotPositions(s)
        d    == IF dots = {} THEN Len(s) + 1 ELSE CHOOSE i \in dots : TRUE
        ip   == SubSeq(s, 1, d - 1)
        fp   == SubSeq(s, d + 1, Len(s))
        mag  == Normalise(DigitsToInt(ip \o fp), Len(fp))
    IN  IF Cardinality(dots) > 1 \/ ~AllDigits(ip) \/ ~AllDigits(fp) \/ Len(ip) + Len(fp) = 0
        THEN Err("ParseFloatError")
        ELSE Ok([k |-> "num", m |-> IF neg THEN 0 - mag.m ELSE mag.m, e |-> mag.e])

\* Sign? ( 'inf' | 'infinity' | 'nan' | Number ), the names case-insensitive.
\* Exponents ('e', 'E') are outside the alphabet of the model's tokens.
ParseF32(tok) ==
    LET signed == tok # <<>> /\ tok[1] \in {"+", "-"}
        neg    == tok # <<>> /\ tok[1] = "-"
        body   == IF signed THEN Tail(tok) ELSE tok
        low    == LowerText(body)
    IN  IF low = <<"n", "a", "n">> THEN Ok([k |-> "nan", m |-> 0, e |-> 0])
        ELSE IF low \in {<<"i", "n", "f">>, <<"i", "n", "f", "i", "n", "i", "t", "y">>}
             THEN Ok([k |-> "inf", m |-> IF neg THEN 0 - 1 ELSE 1, e |-> 0])
        ELSE ParseDecimal(body, neg)

----------------------------------------------------------------------------
(* extract_command, main.rs:206-244 *)

\* arguments[i].parse::<f32>().unwrap() for the 0-based indices from..upto,
\* evaluated left to right: the first index past the end of the vector or the
\* first token that does not parse panics; otherwise the values in order.
RECURSIVE ParseFields(_, _, _, _)
ParseFields(args, from, upto, acc) ==
    IF from > upto THEN Ok(acc)
    ELSE IF from + 1 > Len(args) THEN Panic("index out of bounds", from)
    ELSE IF ParseF32(args[from + 1]).tag = "Err" THEN Panic("unwrap on Err", from)
    ELSE ParseFields(args, from + 1, upto, Append(acc, ParseF32(args[from + 1]).val))

\* a positional tuple variant: Command::HM / TG / CL built from arguments[0..n-1]
PositionalSwapped(name, args, n) ==
    LET fields == ParseFields(args, 0, n - 1, <<>>)
    IN  IF fields.tag = "Panic" THEN fields
        ELSE Ok([cmd |-> name,
                 f |-> [i \in 1..n |-> IF i = 1 THEN fields.val[2]
                                       ELSE IF i = 2 THEN fields.val[1]
                                       ELSE fields.val[i]]])

PositionalStrict(name, args, n) ==
    LET fields == ParseFields(args, 0, n - 1, <<>>)
    IN  IF Len(args) # n THEN Err(FALSE)
        ELSE IF fields.tag = "Panic" THEN fields
        ELSE Ok([cmd |-> name, f |-> fields.val])

Positional(name, args, n) ==
    LET fields == ParseFields(args, 0, n - 1, <<>>)
    IN  IF fields.tag = "Panic" THEN fields
        ELSE Ok([cmd |-> name, f |-> fields.val])

\* an Axis variant built from arguments[1..n]
AxisOf(letter, args, n) ==
    LET fields == ParseFields(args, 1, n, <<>>)
    IN  IF fields.tag = "Panic" THEN fields
        ELSE Ok([cmd |-> "MN", axis |-> [ax |-> letter, f |-> fields.val]])

\* the inner match on arguments[0] of the "MN" arm, main.rs:227-238
ManualAnyLetter(args) ==
    IF Len(args) < 1 THEN Panic("index out of bounds", 0)
    ELSE IF args[1] = <<"B">> THEN AxisOf("B", args, 2)
    ELSE IF Len(args[1]) = 1 THEN AxisOf(args[1][1], args, 1)
    ELSE Err(FALSE)

Manual(args) ==
    IF Len(args) < 1 THEN Panic("index out of bounds", 0)
    ELSE CASE args[1] = <<"X">> -> AxisOf("X", args, 1)
           [] args[1] = <<"Y">> -> AxisOf("Y", args, 1)
           [] args[1] = <<"Z">> -> AxisOf("Z", args, 1)
           [] args[1] = <<"A">> -> AxisOf("A", args, 1)
           [] args[1] = <<"B">> -> AxisOf("B", args, 2)
           [] args[1] = <<"C">> -> AxisOf("C", args, 1)
           [] OTHER -> Err(FALSE)

Nullary(name) == Ok([cmd |-> name])

UpperText(s) ==
    [i \in 1..Len(s) |->
        IF \E j \in 1..26 : LowerChars[j] = s[i]
        THEN UpperChars[CHOOSE j \in 1..26 : LowerChars[j] = s[i]]
        ELSE s[i]]

extract_command_anycase(cs, args) ==
    CASE UpperText(cs) = <<"N", "O">> -> Nullary("NO")
      [] UpperText(cs) = <<"H", "M">> -> Positional("HM", args, 3)
      [] UpperText(cs) = <<"T", "G">> -> Positional("TG", args, 3)
      [] UpperText(cs) = <<"C", "L">> -> Positional("CL", args, 5)
      [] UpperText(cs) = <<"M", "N">> -> Manual(args)
      [] UpperText(cs) = <<"R", "H">> -> Nullary("RH")
      [] UpperText(cs) = <<"R", "S">> -> Nullary("RS")
      [] UpperText(cs) = <<"F", "S">> -> Nullary("FS")
      [] OTHER -> Err(FALSE)

extract_command(cs, args) ==
    CASE cs = <<"N", "O">> -> Nullary("NO")
      [] cs = <<"H", "M">> -> Positional("HM", args, 3)
      [] cs = <<"T", "G">> -> Positional("TG", args, 3)
      [] cs = <<"C", "L">> -> Positional("CL", args, 5)
      [] cs = <<"M", "N">> -> Manual(args)
      [] cs = <<"R", "H">> -> Nullary("RH")
      [] cs = <<"R", "S">> -> Nullary("RS")
      [] cs = <<"F", "S">> -> Nullary("FS")
      [] OTHER -> Err(FALSE)

----------------------------------------------------------------------------
(* The tokenizing steps of main's loop, main.rs:246-266 *)

\* char::is_whitespace on the characters a document of the model can hold
IsWhitespace(c) == c \in {" ", "\t", "\n", "\r"}

\* str::split("\n"), main.rs:246: one piece more than there are newlines,
\* empty pieces kept (so an empty text gives one empty line)
RECURSIVE SplitLinesFrom(_, _, _)
SplitLinesFrom(text, cur, acc) ==
    IF text = <<>> THEN Append(acc, cur)
    ELSE IF Head(text) = "\n" THEN SplitLinesFrom(Tail(text), <<>>, Append(acc, cur))
    ELSE SplitLinesFrom(Tail(text), Append(cur, Head(text)), acc)

split_newline(text) == SplitLinesFrom(text, <<>>, <<>>)

\* str::split_whitespace, main.rs:249: the maximal runs of non-whitespace
RECURSIVE SplitWhitespaceFrom(_, _, _)
SplitWhitespaceFrom(text, cur, acc) ==
    IF text = <<>> THEN (IF cur = <<>> THEN acc ELSE Append(acc, cur))
    ELSE IF IsWhitespace(Head(text))
         THEN SplitWhitespaceFrom(Tail(text), <<>>, IF cur = <<>> THEN acc ELSE Append(acc, cur))
    ELSE SplitWhitespaceFrom(Tail(text), Append(cur, Head(text)), acc)

split_whitespace(text) == SplitWhitespaceFrom(text, <<>>, <<>>)

\* the for loop of main.rs:259-266 over the 0-based arg_idx in 1..terms.len():
\* at arg_idx = terms.len() - 1 it prints the term and breaks, without the push
RECURSIVE CollectArgsKeepLast(_, _, _)
CollectArgsKeepLast(ts, arg_idx, args) ==
    IF arg_idx >= Len(ts) THEN args
    ELSE CollectArgsKeepLast(ts, arg_idx + 1, Append(args, ts[arg_idx + 1]))

RECURSIVE CollectArgs(_, _, _)
CollectArgs(ts, arg_idx, args) ==
    IF arg_idx >= Len(ts) THEN args
    ELSE IF arg_idx = Len(ts) - 1 THEN args
    ELSE CollectArgs(ts, arg_idx + 1, Append(args, ts[arg_idx + 1]))

----------------------------------------------------------------------------
(* Inputs *)

RECURSIVE Join(_, _)
Join(parts, sep) ==
    IF parts = <<>> THEN <<>>
    ELSE IF Len(parts) = 1 THEN parts[1]
    ELSE parts[1] \o sep \o Join(Tail(parts), sep)

Words(parts) == Join(parts, <<" ">>)

tNO == <<"N", "O">>
tHM == <<"H", "M">>
tTG == <<"T", "G">>
tCL == <<"C", "L">>
tMN == <<"M", "N">>
tRH == <<"R", "H">>
tRS == <<"R", "S">>
tFS == <<"F", "S">>
tOne == <<"1">>
tOneDotZero == <<"1", ".", "0">>
tMinusTwoDotFive == <<"-", "2", ".", "5">>
tThree == <<"3">>
tLowerX == <<"x">>

KnownMnemonics == {tNO, tHM, tTG, tCL, tMN, tRH, tRS, tFS}

UnknownMnemonics == {<<"h", "m">>, <<"Z", "Z">>, <<"N">>, <<"N", "O", "O">>}

AxisLetters == {<<"X">>, <<"Y">>, <<"Z">>, <<"A">>, <<"B">>, <<"C">>}

\* tokens tried in the first argument position: the axis letters, an unknown
\* letter, and numbers
FirstTokens == AxisLetters \cup {<<"Q">>, tOne, tMinusTwoDotFive}

\* tokens tried in the later positions: two numbers of different value and a
\* token that is no number
RestTokens == {tOneDotZero, tMinusTwoDotFive, tLowerX}

RECURSIVE SeqsUpTo(_, _)
SeqsUpTo(S, n) ==
    IF n = 0 THEN {<<>>}
    ELSE LET shorter == SeqsUpTo(S, n - 1)
         IN  shorter \cup {Append(s, x) : s \in {t \in shorter : Len(t) = n - 1}, x \in S}

ArgLists ==
    {<<>>} \cup {<<f>> \o r : f \in FirstTokens, r \in SeqsUpTo(RestTokens, MaxArgs - 1)}

LineSet ==
    { tNO,
      <<>>,
      <<" ", "\t">>,
      Words(<<tHM, tOneDotZero, tMinusTwoDotFive, tThree>>),
      Words(<<tHM, tOneDotZero, tMinusTwoDotFive, tThree, tOne>>),
      Words(<<tTG, tOne, tThree>>),
      Words(<<tMN, <<"Q">>, tOneDotZero>>),
      Words(<<tMN, <<"B">>, tOneDotZero, tMinusTwoDotFive, tOne>>),
      <<"Z", "Z">>,
      Words(<<tCL, tOne, tOne, tThree, tThree, tLowerX, tOne>>),
      <<" ", " ">> \o tRH \o <<"\t">>,
      Words(<<<<"h", "m">>, tOne, tOne, tThree, tOne>>) }

Documents ==
    {Join(ls, <<"\n">>) : ls \in SeqsUpTo(LineSet, MaxLines) \ {<<>>}}

----------------------------------------------------------------------------
(* The parse loop of main, main.rs:246-278 *)

Init ==
    /\ file_string \in Documents
    /\ commands = <<>>
    /\ cmd_idx = 0
    /\ terms = <<>>
    /\ command_string = <<>>
    /\ arguments = <<>>
    /\ parsed = None
    /\ output = <<>>
    /\ pc = "read"

\* main.rs:246
SplitDocument ==
    /\ pc = "read"
    /\ commands' = split_newline(file_string)
    /\ cmd_idx' = 1
    /\ pc' = "loop"
    /\ UNCHANGED <<file_string, terms, command_string, arguments, parsed, output>>

\* one iteration of the for loop, main.rs:248-278.  terms[0] at line 253 panics
\* on a line without tokens; a panic inside extract_command unwinds main too.
Iterate ==
    /\ pc = "loop"
    /\ cmd_idx <= Len(commands)
    /\ LET ts == split_whitespace(commands[cmd_idx])
           as == CollectArgs(ts, 1, <<>>)
           r  == IF ts = <<>> THEN Panic("index out of bounds", 0)
                 ELSE extract_command(ts[1], as)
       IN  /\ terms' = ts
           /\ IF ts = <<>>
              THEN /\ pc' = "panicked"
                   /\ UNCHANGED <<command_string, arguments, parsed, output, cmd_idx>>
              ELSE /\ command_string' = ts[1]
                   /\ arguments' = as
                   /\ parsed' = r
                   /\ IF r.tag = "Panic"
                      THEN /\ pc' = "panicked"
                           /\ UNCHANGED <<output, cmd_idx>>
                      ELSE /\ output' = Append(output, r)
                           /\ cmd_idx' = cmd_idx + 1
                           /\ pc' = "loop"
    /\ UNCHANGED <<file_string, commands>>

\* the for loop is exhausted and main returns, main.rs:278-279
Finish ==
    /\ pc = "loop"
    /\ cmd_idx > Len(commands)
    /\ pc' = "done"
    /\ UNCHANGED <<file_string, commands, cmd_idx, terms, command_string, arguments, parsed, output>>

Next == SplitDocument \/ Iterate \/ Finish

Spec == Init /\ [][Next]_vars

----------------------------------------------------------------------------
(* extract_command on its own, over bounded inputs *)

InitExtract ==
    /\ file_string = <<>>
    /\ commands = <<>>
    /\ cmd_idx = 0
    /\ terms = <<>>
    /\ command_string \in KnownMnemonics \cup UnknownMnemonics
    /\ arguments \in ArgLists
    /\ parsed = None
    /\ output = <<>>
    /\ pc = "call"

CallExtract ==
    /\ pc = "call"
    /\ parsed' = extract_command(command_string, arguments)
    /\ pc' = "returned"
    /\ UNCHANGED <<file_string, commands, cmd_idx, terms, command_string, arguments, output>>

NextExtract == CallExtract

ExtractSpec == InitExtract /\ [][NextExtract]_vars

----------------------------------------------------------------------------
(* Vocabulary of the properties *)

IsBlank(line) == \A i \in 1..Len(line) : IsWhitespace(line[i])

NonBlankLines == {i \in 1..Len(commands) : ~IsBlank(commands[i])}

Stopped == pc \in {"done", "panicked"}

Returned == pc = "returned"

IsNumeric(tok) == ParseF32(tok).tag = "Ok"

ValueOf(tok) == ParseF32(tok).val

AllNumeric(args, from, upto) == \A i \in from..upto : IsNumeric(args[i])

\* the arity table of the specification, section 3
SpecArity(cs) ==
    CASE cs \in {tNO, tRH, tRS, tFS} -> 0
      [] cs \in {tHM, tTG} -> 3
      [] cs = tCL -> 5
      [] OTHER -> 0 - 1

\* the number of argument tokens the specification asks of an MN line,
\* the axis letter included
SpecAxisArity(letter) == IF letter = <<"B">> THEN 3 ELSE 2

VariantName(cs) ==
    CASE cs = tNO -> "NO" [] cs = tHM -> "HM" [] cs = tTG -> "TG" [] cs = tCL -> "CL"
      [] cs = tMN -> "MN" [] cs = tRH -> "RH" [] cs = tRS -> "RS" [] cs = tFS -> "FS"
      [] OTHER -> "?"

----------------------------------------------------------------------------
(* C1 *)

\* C1: when the parse of a document ends, the number of emitted results equals
\* the number of lines that are non-blank after trimming; a blank line emits
\* nothing and does not stop the parse.
C1_OneResultPerNonBlankLine ==
    Stopped => /\ Len(output) = Cardinality(NonBlankLines)
               /\ (pc = "panicked" => ~IsBlank(commands[cmd_idx]))

\* a blank line between two NO lines ends the run at the blank line
C1_BlankLineStopsParse ==
    /\ pc = "panicked"
    /\ file_string = Join(<<tNO, <<>>, tNO>>, <<"\n">>)
    /\ cmd_idx = 2
    /\ output = <<Ok([cmd |-> "NO"])>>

----------------------------------------------------------------------------
(* C2 *)

\* C2: the parse is driven to completion: whenever the loop has stopped, every
\* line has been processed and has its result, in line order, whatever lines
\* failed.  Stated for the documents without blank lines, which are C1's.
C2_DrivenToCompletion ==
    Stopped /\ NonBlankLines = 1..Len(commands) =>
        /\ cmd_idx = Len(commands) + 1
        /\ Len(output) = Len(commands)

\* a line with too few arguments ends the run with lines still unprocessed
C2_FailureStopsParse ==
    /\ pc = "panicked"
    /\ parsed.tag = "Panic"
    /\ ~IsBlank(commands[cmd_idx])
    /\ cmd_idx < Len(commands)
    /\ ~IsBlank(commands[cmd_idx + 1])

----------------------------------------------------------------------------
(* C3 *)

\* C3: extract is total: every call returns Ok(Command) or an Err value and
\* never panics.
C3_ExtractTotal == Returned => parsed.tag \in {"Ok", "Err"}

----------------------------------------------------------------------------
(* C4 *)

\* C4: a resolved mnemonic (or MN axis) given a number of argument tokens other
\* than its arity returns an Err and no Command, for too few and for too many.
\* The code's error type is bool, so the formula asks only for an Err, not for
\* the ArityMismatch reason the claim names.
C4_ArityMismatch ==
    Returned =>
        /\ (SpecArity(command_string) >= 0 /\ Len(arguments) # SpecArity(command_string)
               => parsed.tag = "Err")
        /\ (command_string = tMN /\ arguments = <<>> => parsed.tag = "Err")
        /\ (command_string = tMN /\ arguments # <<>> /\ arguments[1] \in AxisLetters
               /\ Len(arguments) # SpecAxisArity(arguments[1])
               => parsed.tag = "Err")

----------------------------------------------------------------------------
(* C5 *)

\* C5: a known mnemonic given exactly its arity of argument tokens, one of which
\* is no number, returns an Err (InvalidNumber at the first such token) and no
\* Command.
C5_InvalidNumber ==
    Returned /\ SpecArity(command_string) > 0
             /\ Len(arguments) = SpecArity(command_string)
             /\ ~AllNumeric(arguments, 1, Len(arguments))
        => parsed.tag = "Err"

----------------------------------------------------------------------------
(* C6 *)

\* C6: on a retained line with tokens t0..t(n-1), extract is called with
\* mnemonic t0 and args exactly t1..t(n-1); so the line `HM 1.0 -2.5 3` yields
\* Ok(HM(1.0, -2.5, 3.0)).
C6_AllArgumentsHandedOver ==
    (pc \in {"loop", "done", "panicked"} /\ terms # <<>>) =>
        /\ command_string = terms[1]
        /\ arguments = Tail(terms)
        /\ (terms = <<tHM, tOneDotZero, tMinusTwoDotFive, tThree>>
               => parsed = Ok([cmd |-> "HM",
                               f |-> <<ValueOf(tOneDotZero), ValueOf(tMinusTwoDotFive),
                                       ValueOf(tThree)>>]))

\* the line `HM 1.0 -2.5 3` reaches extract_command with two arguments
C6_LastArgumentDropped ==
    /\ terms = <<tHM, tOneDotZero, tMinusTwoDotFive, tThree>>
    /\ arguments = <<tOneDotZero, tMinusTwoDotFive>>
    /\ parsed = Panic("index out of bounds", 2)

----------------------------------------------------------------------------
(* C7 *)

\* C7: HM, TG and CL given exactly their arity (3, 3, 5) of numeric tokens
\* return Ok of the matching variant whose i-th field is the value of the i-th
\* argument token, for every i.
C7_PositionalFields ==
    Returned /\ command_string \in {tHM, tTG, tCL}
             /\ Len(arguments) = SpecArity(command_string)
             /\ AllNumeric(arguments, 1, Len(arguments))
        => parsed = Ok([cmd |-> VariantName(command_string),
                        f |-> [i \in 1..Len(arguments) |-> ValueOf(arguments[i])]])

\* CL with five numeric tokens whose first two values differ has returned
C7_Witness ==
    /\ Returned
    /\ command_string = tCL
    /\ Len(arguments) = 5
    /\ AllNumeric(arguments, 1, 5)
    /\ ValueOf(arguments[1]) # ValueOf(arguments[2])
    /\ parsed.tag = "Ok"

----------------------------------------------------------------------------
(* C8 *)

----------------------------------------------------------------------------
(* C9 *)

\* C9: the mnemonic vocabulary is closed and case-sensitive: extract returns Ok
\* only for NO, HM, TG, CL, MN, RH, RS, FS, and for every other mnemonic text
\* and every argument sequence it returns the error and no Command.
C9_ClosedVocabulary ==
    Returned =>
        /\ (parsed.tag = "Ok" => command_string \in KnownMnemonics)
        /\ (command_string \notin KnownMnemonics => parsed = Err(FALSE))

\* the lower-case spelling hm with three numeric tokens has returned the error
C9_Witness ==
    /\ Returned
    /\ command_string = <<"h", "m">>
    /\ Len(arguments) = 3
    /\ AllNumeric(arguments, 1, 3)
    /\ parsed.tag = "Err"

----------------------------------------------------------------------------
(* C10 *)

\* the 0-based argument indices the claim says a call reads
ReadIndices(cs, args) ==
    CASE cs \in {tHM, tTG} -> 0..2
      [] cs = tCL -> 0..4
      [] cs = tMN /\ args # <<>> /\ args[1] \in AxisLetters \ {<<"B">>} -> 0..1
      [] cs = tMN /\ args # <<>> /\ args[1] = <<"B">> -> 0..2
      [] cs = tMN -> {0}
      [] OTHER -> {}

AgreeOn(a, b, idx) ==
    \A i \in idx : /\ (i + 1 <= Len(a)) <=> (i + 1 <= Len(b))
                   /\ i + 1 <= Len(a) => a[i + 1] = b[i + 1]

\* the argument lists one edit away: a token appended, the last token dropped,
\* one token replaced
Neighbours(args) ==
    {Append(args, t) : t \in FirstTokens \cup RestTokens}
    \cup (IF args = <<>> THEN {} ELSE {SubSeq(args, 1, Len(args) - 1)})
    \cup {[args EXCEPT ![i] = t] : i \in 1..Len(args), t \in FirstTokens \cup RestTokens}

\* C10: the result depends only on the mnemonic and on the argument tokens at
\* the indices that mnemonic reads: an argument list that agrees with the
\* call's on those indices gives the same result, and appending a surplus
\* token to a successfully parsed list gives the same Command and no error.
C10_OnlyReadIndicesMatter ==
    Returned =>
        /\ \A other \in Neighbours(arguments) :
               AgreeOn(arguments, other, ReadIndices(command_string, arguments))
                   => extract_command(command_string, other) = parsed
        /\ (parsed.tag = "Ok" =>
               \A t \in FirstTokens \cup RestTokens :
                   extract_command(command_string, Append(arguments, t)) = parsed)

\* HM with a surplus fourth token has returned a Command
C10_Witness ==
    /\ Returned
    /\ command_string = tHM
    /\ Len(arguments) = 4
    /\ parsed.tag = "Ok"

====
